---- MODULE Spec2Model ----
(***************************************************************************)
(* Excel Commander back end: the request handlers of app/routers and the   *)
(* services of app/services, as a state machine.  One action per handler;  *)
(* every action draws its request (and, for the advisor, the outcome of    *)
(* each provider call) from a bounded set and records the response.        *)
(*                                                                         *)
(* Text is a sequence of characters, each character an atom.  A canned    *)
(* message that the code only passes along is written as one piece.        *)
(* Characters outside ASCII are written by name:                           *)
(*   "ord_a"  U+00AA  FEMININE ORDINAL INDICATOR (lowercase, no mapping)   *)
(*   "I_dot"  U+0130  LATIN CAPITAL LETTER I WITH DOT ABOVE                 *)
(*   "dot"    U+0307  COMBINING DOT ABOVE (not cased)                      *)
(*   "g_br" "G_BR"  U+011F/U+011E   "s_ce" "S_CE"  U+015F/U+015E            *)
(*   "u_di" "U_DI"  U+00FC/U+00DC                                          *)
(***************************************************************************)
EXTENDS Integers, Sequences, FiniteSets, TLC

VARIABLES
    api_key,    \* Settings.openai_api_key as AIService.__init__ read it
    files,      \* names of the files in the generated-output directory
    sent,       \* provider requests issued by the last handler, in order
    answers,    \* what each of those requests came to, in the same order
    op,         \* the handler that produced the last response
    req,        \* the last request
    resp        \* the last response

vars == <<api_key, files, sent, answers, op, req, resp>>

(***************************************************************************)
(* Bounds of the model.                                                    *)
(***************************************************************************)
MaxLen == 3         \* longest text cell enumerated character by character
MaxRows == 2        \* most rows of a grid built from the sample cells
MaxCols == 2        \* most cells of a row built from the sample cells

None == [kind |-> "none", val |-> <<>>]

(***************************************************************************)
(* Characters: Python's str predicates and case mappings (Unicode).        *)
(***************************************************************************)
\* <<lowercase, uppercase>> pairs with one-to-one simple case mappings
CasePairs ==
    { <<"a","A">>, <<"b","B">>, <<"c","C">>, <<"d","D">>, <<"e","E">>,
      <<"f","F">>, <<"g","G">>, <<"h","H">>, <<"i","I">>, <<"k","K">>,
      <<"l","L">>, <<"m","M">>, <<"n","N">>, <<"o","O">>, <<"p","P">>,
      <<"r","R">>, <<"s","S">>, <<"t","T">>, <<"u","U">>, <<"v","V">>,
      <<"x","X">>, <<"y","Y">>, <<"z","Z">>, <<"g_br","G_BR">>, <<"s_ce","S_CE">>, <<"u_di","U_DI">> }

LowerLetters == { p[1] : p \in CasePairs }
UpperLetters == { p[2] : p \in CasePairs }

\* str.isspace of one character ("NL" is the line feed)
IsSpace(c) == c \in { " ", "NL" }

\* str.islower of one character: it has the Lowercase property
IsLowerChar(c) == c \in LowerLetters \cup {"ord_a"}

\* _PyUnicode_IsCased: the Cased property (combining marks are not cased)
IsCased(c) == c \in LowerLetters \cup UpperLetters \cup {"ord_a", "I_dot"}

\* _PyUnicode_ToLowerFull: the full lowercase mapping of one character
ToLowerFull(c) ==
    IF c = "I_dot" THEN <<"i", "dot">>
    ELSE IF c \in UpperLetters
         THEN << (CHOOSE p \in CasePairs : p[2] = c)[1] >>
         ELSE <<c>>

\* _PyUnicode_ToTitleFull: the full titlecase mapping of one character
ToTitleFull(c) ==
    IF c \in LowerLetters
    THEN << (CHOOSE p \in CasePairs : p[1] = c)[2] >>
    ELSE <<c>>

(***************************************************************************)
(* Text: str.strip, str.title, str.lower, startswith, substring test.      *)
(***************************************************************************)
RECURSIVE lstrip(_)
lstrip(s) == IF s # <<>> /\ IsSpace(Head(s)) THEN lstrip(Tail(s)) ELSE s

RECURSIVE rstrip(_)
rstrip(s) ==
    IF s # <<>> /\ IsSpace(s[Len(s)]) THEN rstrip(SubSeq(s, 1, Len(s) - 1))
    ELSE s

strip(s) == rstrip(lstrip(s))

\* unicodeobject.c do_title: a character after a cased one is lowercased,
\* any other character is titlecased
RECURSIVE title_from(_, _)
title_from(s, previous_is_cased) ==
    IF s = <<>> THEN <<>>
    ELSE (IF previous_is_cased THEN ToLowerFull(Head(s))
          ELSE ToTitleFull(Head(s)))
         \o title_from(Tail(s), IsCased(Head(s)))

title(s) == title_from(s, FALSE)

RECURSIVE lower(_)
lower(s) == IF s = <<>> THEN <<>> ELSE ToLowerFull(Head(s)) \o lower(Tail(s))

startswith(s, prefix) ==
    Len(s) >= Len(prefix) /\ SubSeq(s, 1, Len(prefix)) = prefix

\* Python's `sub in s`
contains(s, sub) ==
    \E i \in 1..(Len(s) - Len(sub) + 1) : SubSeq(s, i, i + Len(sub) - 1) = sub

(***************************************************************************)
(* Cells and grids.                                                        *)
(***************************************************************************)
Str(s) == [kind |-> "str", val |-> s]
Num(n) == [kind |-> "num", val |-> n]
Bool(b) == [kind |-> "bool", val |-> b]
List(s) == [kind |-> "list", val |-> s]

\* isinstance(cell, str)
IsStr(cell) == cell.kind = "str"

RECURSIVE SeqsUpTo(_, _)
SeqsUpTo(S, n) ==
    IF n = 0 THEN { <<>> }
    ELSE LET shorter == SeqsUpTo(S, n - 1)
         IN  shorter \cup { Append(s, x) : s \in shorter, x \in S }

\* the characters text cells are enumerated over
CellAlphabet == { " ", "a", "A", "1", "ord_a", "I_dot" }

TextCells == { Str(s) : s \in SeqsUpTo(CellAlphabet, MaxLen) }
NonTextCells == { Num(7), Bool(TRUE), None }

\* sample cells for grids of several cells: one that clean changes, one it
\* keeps, one that is not text
SampleCells == { Str(<<" ", "a", "b">>), Str(<<"A", "b">>), Num(7) }

SampleGrids == SeqsUpTo(SeqsUpTo(SampleCells, MaxCols), MaxRows)

\* Python's str() of a non-negative int
RECURSIVE decimal(_)
decimal(n) ==
    LET digit == <<"0", "1", "2", "3", "4", "5", "6", "7", "8", "9">>
    IN  IF n < 10 THEN << digit[n + 1] >>
        ELSE decimal(n \div 10) \o << digit[(n % 10) + 1] >>

\* the cell at row r, column c of a grid with many changes: a number, a
\* text clean keeps, or a text clean trims and capitalises
LogCell(r, c) ==
    CASE (r + c) % 4 = 0 -> Num(10 * r + c)
      [] (r + c) % 4 = 1 -> Str(<<"A">> \o decimal(c))
      [] OTHER -> Str(<<" ", "a">> \o decimal(10 * r + c))

\* grids of 16 to 30 cells, about half of them changed by clean
LogGrids ==
    { [r \in 1..nr |-> [c \in 1..nc |-> LogCell(r, c)]] :
        nr \in 4..6, nc \in 4..5 }

\* request.data of the clean request
CleanGrids ==
    { << <<c>> >> : c \in TextCells \cup NonTextCells }
    \cup SampleGrids \cup LogGrids

(***************************************************************************)
(* Data cleaner: routers/formula.py clean_data.                            *)
(***************************************************************************)
\* clean_cell with the islower test of line 103 dropped
clean_cell_always_title(cell) ==
    IF IsStr(cell) THEN Str(title(strip(cell.val))) ELSE cell

\* lines 98-111: the value appended to cleaned_row for one cell
clean_cell(cell) ==
    IF IsStr(cell)
    THEN LET stripped == strip(cell.val)
         IN  IF stripped # <<>> /\ IsLowerChar(stripped[1])
             THEN Str(title(stripped))
             ELSE Str(stripped)
    ELSE cell

\* the change-log entry with the loop's 0-based indices
change_entry_zero_based(row_idx, col_idx, original, new_val) ==
    [row |-> row_idx, col |-> col_idx,
     original |-> original.val, new_val |-> new_val.val]

\* line 107: the change-log entry "[row,col]: 'original' -> 'new_val'"
change_entry(row_idx, col_idx, original, new_val) ==
    [row |-> row_idx + 1, col |-> col_idx + 1,
     original |-> original.val, new_val |-> new_val.val]

\* lines 95-111 for one row (row_idx 0-based): the entries it appends
RECURSIVE row_changes(_, _, _)
row_changes(row, row_idx, col_idx) ==
    IF col_idx >= Len(row) THEN <<>>
    ELSE LET cell == row[col_idx + 1]
             new_val == clean_cell(cell)
             here == IF IsStr(cell) /\ new_val # cell
                     THEN << change_entry(row_idx, col_idx, cell, new_val) >>
                     ELSE <<>>
         IN  here \o row_changes(row, row_idx, col_idx + 1)

RECURSIVE grid_changes(_, _)
grid_changes(data, row_idx) ==
    IF row_idx >= Len(data) THEN <<>>
    ELSE row_changes(data[row_idx + 1], row_idx, 0)
         \o grid_changes(data, row_idx + 1)

cleaned_grid(data) ==
    [r \in 1..Len(data) |-> [c \in 1..Len(data[r]) |-> clean_cell(data[r][c])]]

ChangesLimit == 10

\* Python's seq[:n]
take(s, n) == SubSeq(s, 1, IF Len(s) < n THEN Len(s) ELSE n)

\* lines 89-119: the response of the clean handler
clean_data(data) ==
    [success |-> TRUE,
     cleaned_data |-> cleaned_grid(data),
     changes_made |-> take(grid_changes(data, 0), ChangesLimit),
     error |-> None]

(***************************************************************************)
(* Formula advisor: services/ai_service.py AIService.                      *)
(***************************************************************************)
MaxWords == 2       \* most vocabulary words of a description
MaxReply == 3       \* longest insights completion enumerated by character

\* Python's str() of a cell
pystr(cell) ==
    CASE cell.kind = "str" -> cell.val
      [] cell.kind = "num" -> decimal(cell.val)
      [] cell.kind = "bool" ->
            IF cell.val THEN <<"T", "r", "u", "e">>
            ELSE <<"F", "a", "l", "s", "e">>
      [] OTHER -> <<"N", "o", "n", "e">>

\* sep.join(parts) for a sequence of texts
RECURSIVE join(_, _)
join(sep, parts) ==
    IF parts = <<>> THEN <<>>
    ELSE IF Len(parts) = 1 THEN parts[1]
    ELSE parts[1] \o sep \o join(sep, Tail(parts))

\* s.split("\n")
RECURSIVE split_lines(_)
split_lines(s) ==
    IF \A i \in 1..Len(s) : s[i] # "NL" THEN << s >>
    ELSE LET k == CHOOSE i \in 1..Len(s) :
                      s[i] = "NL" /\ \A j \in 1..(i - 1) : s[j] # "NL"
         IN  << SubSeq(s, 1, k - 1) >> \o split_lines(SubSeq(s, k + 1, Len(s)))

\* line 66: is_configured
is_configured(key) == key # <<>>

\* config.py line 27 (ai_max_tokens) and the budgets of lines 146 and 163
DefaultMaxTokens == 1000
ExplainMaxTokens == 500
InsightsMaxTokens == 800

\* lines 77-82: the request _call_openrouter posts
provider_request(intent, user, max_tokens) ==
    [intent |-> intent, user |-> user, max_tokens |-> max_tokens]

\* what one provider call can come to: a completion body with its content,
\* a non-2xx status (line 94), or any other failure (line 97: timeout,
\* network error, malformed body)
Failures == { [kind |-> "http_status", content |-> <<>>],
              [kind |-> "exception", content |-> <<>>] }
Completed(contents) == { [kind |-> "ok", content |-> c] : c \in contents }

\* lines 84-99: the stripped text of the first choice, or None
call_openrouter(outcome) ==
    IF outcome.kind = "ok" THEN Str(strip(outcome.content)) ELSE None

kw_topla == <<"t", "o", "p", "l", "a">>
kw_sum == <<"s", "u", "m">>
kw_ortalama == <<"o", "r", "t", "a", "l", "a", "m", "a">>
kw_average == <<"a", "v", "e", "r", "a", "g", "e">>
kw_say == <<"s", "a", "y">>
kw_count == <<"c", "o", "u", "n", "t">>
kw_eger == <<"e", "g_br", "e", "r">>
kw_if == <<"i", "f">>
kw_duseyara == <<"d", "u_di", "s_ce", "e", "y", "a", "r", "a">>
kw_vlookup == <<"v", "l", "o", "o", "k", "u", "p">>

FormulaReply(formula, explanation) ==
    [formula |-> Str(formula), explanation |-> Str(explanation)]

SumReply ==
    FormulaReply(<<"=", "TOPLA(A1:A10)">>,
        <<"Bu formul A1'den A10'a kadar olan hucreleri toplar.">>)
AverageReply ==
    FormulaReply(<<"=", "ORTALAMA(A1:A10)">>,
        <<"Bu formul A1'den A10'a kadar olan degerlerin ortalamasini hesaplar.">>)
CountReply ==
    FormulaReply(<<"=", "BAG_DEG_SAY(A1:A10)">>,
        <<"Bu formul A1'den A10'a kadar dolu hucreleri sayar.">>)
IfReply ==
    FormulaReply(<<"=", "EGER(A1>100;\"Yuksek\";\"Dusuk\")">>,
        <<"Bu formul A1 100'den buyukse 'Yuksek', degilse 'Dusuk' yazar.">>)
LookupReply ==
    FormulaReply(<<"=", "DUSEYARA(A1;Tablo!A:B;2;0)">>,
        <<"Bu formul A1 degerini Tablo'da arar ve 2. sutundaki karsiligini getirir.">>)
DefaultReply(description) ==
    FormulaReply(<<"=", "TOPLA(A:A)">>,
        <<"'">> \o description \o <<"' icin ornek formul olusturuldu.">>)

\* _mock_formula with the average rule tried before the sum rule
mock_formula_average_first(description) ==
    LET desc_lower == lower(description)
    IN  IF contains(desc_lower, kw_ortalama) \/ contains(desc_lower, kw_average)
        THEN AverageReply
        ELSE IF contains(desc_lower, kw_topla) \/ contains(desc_lower, kw_sum)
        THEN SumReply
        ELSE IF contains(desc_lower, kw_say) \/ contains(desc_lower, kw_count)
        THEN CountReply
        ELSE IF contains(desc_lower, kw_eger) \/ contains(desc_lower, kw_if)
        THEN IfReply
        ELSE IF contains(desc_lower, kw_duseyara) \/ contains(desc_lower, kw_vlookup)
        THEN LookupReply
        ELSE DefaultReply(description)

\* lines 182-197: _mock_formula
mock_formula(description) ==
    LET desc_lower == lower(description)
    IN  IF contains(desc_lower, kw_topla) \/ contains(desc_lower, kw_sum)
        THEN SumReply
        ELSE IF contains(desc_lower, kw_ortalama) \/ contains(desc_lower, kw_average)
        THEN AverageReply
        ELSE IF contains(desc_lower, kw_say) \/ contains(desc_lower, kw_count)
        THEN CountReply
        ELSE IF contains(desc_lower, kw_eger) \/ contains(desc_lower, kw_if)
        THEN IfReply
        ELSE IF contains(desc_lower, kw_duseyara) \/ contains(desc_lower, kw_vlookup)
        THEN LookupReply
        ELSE DefaultReply(description)

ExplainFallback == Str(<<"Aciklama olusturulamadi.">>)

\* _explain_formula returning the completion as it came, None included
explain_formula_internal_no_fallback(formula, outcome) ==
    [explanation |-> call_openrouter(outcome),
     sent |-> << provider_request("explain",
                    <<"Bu formulu acikla: ">> \o formula.val,
                    ExplainMaxTokens) >>]

\* lines 139-147: _explain_formula; `result or ...` takes the fallback for
\* None and for the empty text
explain_formula_internal(formula, outcome) ==
    LET result == call_openrouter(outcome)
    IN  [explanation |->
             IF result = None \/ result.val = <<>> THEN ExplainFallback
             ELSE result,
         sent |-> << provider_request("explain",
                        <<"Bu formulu acikla: ">> \o formula.val,
                        ExplainMaxTokens) >>]

Marker_eq == <<"=">>
Marker_HATA == <<"H", "A", "T", "A">>

\* lines 124-125 without the error-marker exemption
normalize_formula_no_marker(text) ==
    IF ~startswith(text, Marker_eq) THEN Marker_eq \o text ELSE text

\* lines 124-125: the formula text as returned
normalize_formula(text) ==
    IF ~startswith(text, Marker_eq) /\ ~startswith(text, Marker_HATA)
    THEN Marker_eq \o text
    ELSE text

\* lines 109-111: the user prompt of generate_formula; `if context` skips
\* None and the empty text
formula_prompt(description, context) ==
    <<"Kullanici Istegi: ">> \o description
    \o (IF context # None /\ context.val # <<>>
        THEN <<"NL", "Baglam: ">> \o context.val ELSE <<>>)

\* generate_formula answering a failed first call with no formula at all
generate_formula_no_fallback(key, description, context, first, second) ==
    IF ~is_configured(key)
    THEN mock_formula(description) @@ [sent |-> <<>>]
    ELSE [formula |-> None, explanation |-> None,
          sent |-> << provider_request("formula",
                         formula_prompt(description, context),
                         DefaultMaxTokens) >>]

\* lines 101-130: generate_formula; `first` and `second` are what the
\* formula call and the explanation call come to
generate_formula(key, description, context, first, second) ==
    IF ~is_configured(key)
    THEN mock_formula(description) @@ [sent |-> <<>>]
    ELSE LET asked == << provider_request("formula",
                            formula_prompt(description, context),
                            DefaultMaxTokens) >>
             formula == call_openrouter(first)
         IN  IF formula = None
             THEN mock_formula(description) @@ [sent |-> asked]
             ELSE LET normal == Str(normalize_formula(formula.val))
                      told == explain_formula_internal(normal, second)
                  IN  [formula |-> normal,
                       explanation |-> told.explanation,
                       sent |-> asked \o told.sent]

\* lines 132-137: explain_formula
explain_formula(key, formula, outcome) ==
    IF ~is_configured(key)
    THEN [explanation |->
              Str(<<"Bu formul (">> \o formula
                  \o <<") verilerinizi hesaplar. (Mock aciklama)">>),
          sent |-> <<>>]
    ELSE explain_formula_internal(Str(formula), outcome)

MockInsights ==
    << <<"Veriler genel olarak yukselis trendi gosteriyor.">>,
       <<"En yuksek deger son satirlarda gozlemleniyor.">>,
       <<"Buyume orani pozitif seyrediyor.">> >>

\* _mock_insights ignoring count
mock_insights_all(data, count) == MockInsights

\* lines 199-205: _mock_insights (count is positive)
mock_insights(data, count) == take(MockInsights, count)

PromptRows == 20

\* lines 172-180: _format_data_for_prompt
format_data_for_prompt(data) ==
    IF data = <<>> THEN <<"Bos veri">>
    ELSE LET shown == take(data, PromptRows)
             lines == [r \in 1..Len(shown) |->
                          join(<<" ", "|", " ">>,
                               [c \in 1..Len(shown[r]) |-> pystr(shown[r][c])])]
         IN  join(<<"NL">>, lines)

\* line 169 without its filter: every line of the completion, stripped
RECURSIVE nonblank_lines_unfiltered(_)
nonblank_lines_unfiltered(lines) ==
    IF lines = <<>> THEN <<>>
    ELSE << strip(Head(lines)) >> \o nonblank_lines_unfiltered(Tail(lines))

\* line 169: the stripped non-blank lines of the completion
RECURSIVE nonblank_lines(_)
nonblank_lines(lines) ==
    IF lines = <<>> THEN <<>>
    ELSE (IF strip(Head(lines)) # <<>> THEN << strip(Head(lines)) >> ELSE <<>>)
         \o nonblank_lines(Tail(lines))

\* generate_insights asking the provider a second time after a failure
generate_insights_retry(key, data, count, outcome) ==
    IF ~is_configured(key)
    THEN [insights |-> mock_insights(data, count), sent |-> <<>>]
    ELSE LET asked == << provider_request("insights",
                            <<"Bu veriyi analiz et ve ">> \o decimal(count)
                            \o <<" adet icgoru cikar:", "NL", "NL">>
                            \o format_data_for_prompt(data),
                            InsightsMaxTokens) >>
             result == call_openrouter(outcome)
         IN  IF result = None
             THEN [insights |-> mock_insights(data, count),
                   sent |-> asked \o asked]
             ELSE [insights |->
                       take(nonblank_lines(split_lines(result.val)), count),
                   sent |-> asked]

\* lines 149-170: generate_insights
generate_insights(key, data, count, outcome) ==
    IF ~is_configured(key)
    THEN [insights |-> mock_insights(data, count), sent |-> <<>>]
    ELSE LET asked == << provider_request("insights",
                            <<"Bu veriyi analiz et ve ">> \o decimal(count)
                            \o <<" adet icgoru cikar:", "NL", "NL">>
                            \o format_data_for_prompt(data),
                            InsightsMaxTokens) >>
             result == call_openrouter(outcome)
         IN  IF result = None
             THEN [insights |-> mock_insights(data, count), sent |-> asked]
             ELSE [insights |->
                       take(nonblank_lines(split_lines(result.val)), count),
                   sent |-> asked]

(***************************************************************************)
(* Deck builder: services/pptx_service.py PPTXService.  A slide is the     *)
(* content the code hands to the presentation library.                     *)
(***************************************************************************)
InsightsShown == 5      \* line 141: insights[:5]
TableRows == 15         \* line 226: data[:15]
TableCols == 6          \* line 228: min(len(display_data[0]), 6)

Min(a, b) == IF a < b THEN a ELSE b

\* lines 90-124: _add_title_slide
add_title_slide(title_text) == [kind |-> "title", text |-> title_text]

\* lines 126-157: _add_insights_slide
add_insights_slide(insights) ==
    [kind |-> "insights", items |-> take(insights, InsightsShown)]

IsDigits(s) ==
    s # <<>> /\ \A i \in 1..Len(s) :
        s[i] \in { "0", "1", "2", "3", "4", "5", "6", "7", "8", "9" }

RECURSIVE digits_value(_)
digits_value(s) ==
    IF s = <<>> THEN 0
    ELSE 10 * digits_value(SubSeq(s, 1, Len(s) - 1))
         + (CHOOSE d \in 0..9 : decimal(d) = << s[Len(s)] >>)

\* lines 188-191: float(row[col_idx]) with ValueError and TypeError turned
\* into 0 (a text of decimal digits, a number and a boolean convert)
float_or_zero(cell) ==
    CASE cell.kind = "num" -> cell.val
      [] cell.kind = "bool" -> IF cell.val THEN 1 ELSE 0
      [] cell.kind = "str" /\ IsDigits(strip(cell.val)) ->
            digits_value(strip(cell.val))
      [] OTHER -> 0

\* lines 196-201: the chart kind of the library
xl_chart_type(chart_type) ==
    IF chart_type = "line" THEN "LINE"
    ELSE IF chart_type = "pie" THEN "PIE"
    ELSE "COLUMN_CLUSTERED"

\* lines 159-209: _add_chart_slide; row[0] of line 180 raises IndexError on
\* an empty data row
add_chart_slide(data, chart_type) ==
    LET headers == data[1]
        rows == Tail(data)
    IN  IF \E r \in 1..Len(rows) : rows[r] = <<>>
        THEN [raised |-> "IndexError", slide |-> None]
        ELSE [raised |-> "",
              slide |->
                [kind |-> "chart",
                 chart_type |-> xl_chart_type(chart_type),
                 categories |-> [r \in 1..Len(rows) |-> pystr(rows[r][1])],
                 series |->
                    [k \in 1..(IF Len(headers) > 1 THEN Len(headers) - 1 ELSE 0) |->
                        [name |-> pystr(headers[k + 1]),
                         values |->
                            [r \in 1..Len(rows) |->
                                IF k + 1 <= Len(rows[r])
                                THEN float_or_zero(rows[r][k + 1])
                                ELSE 0]]]]]

\* lines 244, 258: the text of table cell (row_idx, col_idx), both 0-based
table_cell_text(display_data, row_idx, col_idx) ==
    IF col_idx < Len(display_data[row_idx + 1])
    THEN pystr(display_data[row_idx + 1][col_idx + 1])
    ELSE <<>>

\* the fill with the alternation counted from the first data row
table_cell_fill_from_data(row_idx) ==
    IF row_idx = 0 THEN "COLOR_PRIMARY"
    ELSE IF (row_idx - 1) % 2 = 0 THEN "COLOR_LIGHT"
    ELSE "none"

\* lines 245-246, 262-264: the fill of table cell row row_idx
table_cell_fill(row_idx) ==
    IF row_idx = 0 THEN "COLOR_PRIMARY"
    ELSE IF row_idx % 2 = 0 THEN "COLOR_LIGHT"
    ELSE "none"

\* _add_table_slide without the row and column limits
add_table_slide_unlimited(data) ==
    [kind |-> "table",
     rows_count |-> Len(data),
     cols_count |-> Len(data[1]),
     cells |->
        [r \in 1..Len(data) |->
            [c \in 1..Len(data[1]) |->
                [text |-> table_cell_text(data, r - 1, c - 1),
                 fill |-> table_cell_fill(r - 1)]]]]

\* lines 211-269: _add_table_slide
add_table_slide(data) ==
    LET display_data == take(data, TableRows)
        rows_count == Len(display_data)
        cols_count == Min(Len(display_data[1]), TableCols)
    IN  [kind |-> "table",
         rows_count |-> rows_count,
         cols_count |-> cols_count,
         cells |->
            [r \in 1..rows_count |->
                [c \in 1..cols_count |->
                    [text |-> table_cell_text(display_data, r - 1, c - 1),
                     fill |-> table_cell_fill(r - 1)]]]]

\* lines 271-299: _add_conclusion_slide
add_conclusion_slide(title_text) == [kind |-> "conclusion"]

\* line 68: `if insights` skips None and the empty list
HasInsights(insights) == insights # None /\ insights.val # <<>>

\* lines 58-80: the slides create_presentation adds before it saves, or the
\* exception that ends it
build_slides(data, title_text, insights, include_chart, chart_type) ==
    LET first == << add_title_slide(title_text) >>
                 \o (IF HasInsights(insights)
                     THEN << add_insights_slide(insights.val) >> ELSE <<>>)
        chart == IF include_chart /\ Len(data) > 1
                 THEN add_chart_slide(data, chart_type)
                 ELSE [raised |-> "", slide |-> None]
    IN  IF chart.raised # ""
        THEN [raised |-> chart.raised, slides |-> <<>>]
        ELSE [raised |-> "",
              slides |->
                first
                \o (IF chart.slide # None THEN << chart.slide >> ELSE <<>>)
                \o (IF Len(data) > 1 THEN << add_table_slide(data) >> ELSE <<>>)
                \o << add_conclusion_slide(title_text) >>]

(***************************************************************************)
(* Paths and the file system.  A path is a sequence of tokens, "/" being   *)
(* the separator; the tokens between two separators spell one component.   *)
(***************************************************************************)
NumSuffixes == 2    \* distinct values of uuid4().hex[:8] in the model

\* the directory three levels above pptx_service.py and presentation.py
AppRoot == <<"/", "srv">>

\* os.path.join(a, b)
path_join(a, b) ==
    IF b # <<>> /\ b[1] = "/" THEN b
    ELSE IF a = <<>> \/ a[Len(a)] = "/" THEN a \o b
    ELSE a \o <<"/">> \o b

\* pptx_service.py line 21 (presentation.py lines 82-85 compute the same)
OUTPUT_DIR == path_join(AppRoot, <<"generated">>)

\* line 83: presentation_<uuid4().hex[:8]>.pptx
presentation_filename(suffix) == <<"presentation_", suffix, ".pptx">>

HexSuffixes == { decimal(i) [1] : i \in 1..NumSuffixes }

\* the path itself in place of its last component
basename_whole(path) == path

\* os.path.basename(path)
RECURSIVE basename(_)
basename(path) ==
    IF \A i \in 1..Len(path) : path[i] # "/" THEN path
    ELSE basename(Tail(path))

\* the components of a path, split at the separators
RECURSIVE components(_)
components(path) ==
    IF \A i \in 1..Len(path) : path[i] # "/" THEN << path >>
    ELSE LET k == CHOOSE i \in 1..Len(path) :
                      path[i] = "/" /\ \A j \in 1..(i - 1) : path[j] # "/"
         IN  << SubSeq(path, 1, k - 1) >>
             \o components(SubSeq(path, k + 1, Len(path)))

GeneratedDir == << <<"srv">>, <<"generated">> >>

\* the directories of the host, each as its components below the root
Directories ==
    { <<>>, << <<"srv">> >>, GeneratedDir, << <<"srv">>, <<"app">> >>,
      << <<"etc">> >> }

\* the regular files of the host: those beside the application and the
\* generated ones
RegularFiles(generated) ==
    { << <<"srv">>, <<".env">> >>,
      << <<"srv">>, <<"app">>, <<"main.py">> >>,
      << <<"etc">>, <<"passwd">> >> }
    \cup { Append(GeneratedDir, f) : f \in generated }

Missing == << <<"?">> >>

\* the node the operating system reaches from directory `at` along `comps`
RECURSIVE walk(_, _, _)
walk(at, comps, generated) ==
    IF comps = <<>> THEN at
    ELSE LET c == Head(comps)
             next == IF c = <<>> \/ c = <<".">> THEN at
                     ELSE IF c = <<"..">>
                     THEN (IF at = <<>> THEN at ELSE SubSeq(at, 1, Len(at) - 1))
                     ELSE Append(at, c)
         IN  IF at \notin Directories THEN Missing
             ELSE IF next \in Directories THEN walk(next, Tail(comps), generated)
             ELSE IF next \in RegularFiles(generated) /\ Tail(comps) = <<>>
             THEN next
             ELSE Missing

\* the file or directory an absolute path names, or Missing
resolve(path, generated) == walk(<<>>, components(path), generated)

\* os.path.exists(path)
path_exists(path, generated) == resolve(path, generated) # Missing

(***************************************************************************)
(* Request layer: routers/presentation.py.                                 *)
(***************************************************************************)
\* lines 43-48: chart_type_map.get(request.chart_type.value, "bar")
map_chart_type(layout) ==
    CASE layout = "chart_bar" -> "bar"
      [] layout = "chart_line" -> "line"
      [] layout = "chart_pie" -> "pie"
      [] OTHER -> "bar"

ValidationError == Str(<<"Veri en az 2 satir icermelidir (baslik + veri).">>)

MinDataRows == 2        \* line 30: len(request.data) < 2

\* str(e) of the exception a component raised
exception_message(raised) ==
    IF raised = "IndexError" THEN <<"list index out of range">>
    ELSE << raised >>

\* the failure envelope without its error
presentation_failure_silent(error) ==
    [success |-> FALSE, file_url |-> None, insights |-> None, error |-> None]

\* lines 31-34, 70-73: PresentationResponse(success=False, error=...)
presentation_failure(error) ==
    [success |-> FALSE, file_url |-> None, insights |-> None, error |-> error]

\* lines 37-67: the handler past its validation: insights, chart type,
\* deck, download URL; `written` holds the file the deck builder saved
present(key, data, title_text, count, include_chart, layout, outcome, suffix) ==
    LET told == generate_insights(key, data, count, outcome)
        built == build_slides(data, title_text, List(told.insights),
                              include_chart, map_chart_type(layout))
        filepath == path_join(OUTPUT_DIR, presentation_filename(suffix))
        filename == basename(filepath)
    IN  IF built.raised # ""
        THEN [response |->
                  presentation_failure(Str(exception_message(built.raised))),
              sent |-> told.sent, written |-> {}]
        ELSE [response |->
                  [success |-> TRUE,
                   file_url |->
                       Str(<<"/api/presentation/download/">> \o filename),
                   insights |-> List(told.insights),
                   error |-> None],
              sent |-> told.sent,
              written |-> { filename }]

\* generate_presentation with the check of line 30 made after the work
generate_presentation_late_check(key, data, title_text, count, include_chart, layout, outcome, suffix) ==
    LET done == present(key, data, title_text, count, include_chart, layout,
                        outcome, suffix)
    IN  IF Len(data) < MinDataRows
        THEN [response |-> presentation_failure(ValidationError),
              sent |-> done.sent, written |-> done.written]
        ELSE done

\* lines 16-73: generate_presentation
generate_presentation(key, data, title_text, count, include_chart, layout, outcome, suffix) ==
    IF Len(data) < MinDataRows
    THEN [response |-> presentation_failure(ValidationError),
          sent |-> <<>>, written |-> {}]
    ELSE present(key, data, title_text, count, include_chart, layout,
                 outcome, suffix)

\* lines 76-99: download_presentation
download_presentation(filename, generated) ==
    LET generated_dir == path_join(AppRoot, <<"generated">>)
        filepath == path_join(generated_dir, filename)
    IN  IF ~path_exists(filepath, generated)
        THEN [status |-> 404, body |-> Missing]
        ELSE IF ~startswith(filepath, generated_dir)
        THEN [status |-> 403, body |-> Missing]
        ELSE [status |-> 200, body |-> resolve(filepath, generated)]

NoRequest == [data |-> <<>>]
NoResponse == [success |-> FALSE, error |-> None]

(***************************************************************************)
(* The server.  The handlers are coroutines without an await, so each runs *)
(* to completion before the event loop takes the next request; a response *)
(* stays in `resp` until the server has sent it.                           *)
(***************************************************************************)
Init ==
    /\ api_key \in { <<>>, <<"s", "k">> }
    /\ files = {}
    /\ sent = <<>>
    /\ answers = <<>>
    /\ op = "none"
    /\ req = NoRequest
    /\ resp = NoResponse

\* the response is sent and the server waits for the next request
Deliver ==
    /\ op # "none"
    /\ op' = "none"
    /\ req' = NoRequest
    /\ resp' = NoResponse
    /\ sent' = <<>>
    /\ answers' = <<>>
    /\ UNCHANGED <<api_key, files>>

\* the clean handler run on request.data = data
Clean(data) ==
    /\ op' = "clean"
    /\ req' = [data |-> data]
    /\ resp' = clean_data(data)
    /\ sent' = <<>>
    /\ answers' = <<>>
    /\ UNCHANGED <<api_key, files>>

\* POST /api/formula/clean
CleanData == op = "none" /\ \E data \in CleanGrids : Clean(data)

SpecClean == Init /\ [][CleanData \/ Deliver]_vars

(***************************************************************************)
(* Advisor requests.                                                       *)
(***************************************************************************)
Vocabulary ==
    { <<"T", "o", "p", "l", "a">>, kw_sum,
      <<"O", "R", "T", "A", "L", "A", "M", "A">>, kw_average,
      kw_say, kw_count, <<"E", "G_BR", "E", "R">>, kw_if, kw_duseyara,
      <<"V", "L", "O", "O", "K", "U", "P">>, <<"x", "y", "z">> }

\* FormulaRequest.description: one to MaxWords words
Descriptions ==
    { join(<<" ">>, ws) : ws \in SeqsUpTo(Vocabulary, MaxWords) \ { <<>> } }

\* FormulaRequest.context
Contexts == { None, Str(<<"Satis verileri tablosu">>) }

\* contents the formula completion is drawn from
FormulaContents ==
    { <<"=", "A", "1">>, <<" ", "=", "A", "1", "NL">>,
      <<"A", "1", "+", "B", "1">>, <<"H", "A", "T", "A", ":", " ", "x">>,
      <<"H", "A", "T">>, <<>>, <<" ">> }

\* contents the explanation completion is drawn from
ExplainContents == { <<>>, <<" ">>, <<"Bu formul hucreleri toplar.">> }

\* ExplainRequest.formula
Formulas == { <<"=", "A", "1">>, <<"=", "TOPLA(A:A)">> }

\* PresentationRequest.insights_count: Field(3, ge=1, le=5)
InsightsCountMin == 1
InsightsCountMax == 5
InsightCounts == InsightsCountMin..InsightsCountMax

\* contents the insights completion is drawn from: every text of up to
\* MaxReply characters, and one with a blank line between two insights
InsightContents ==
    SeqsUpTo({ "x", " ", "NL" }, MaxReply)
    \cup { <<" ", "x", "NL", " ", "NL", "y", " ", "NL", "z">> }

\* a grid of one column with n rows
Column(n) == [r \in 1..n |-> << Num(r) >>]

InsightGrids ==
    { <<>>, Column(1), Column(PromptRows + 1),
      << <<Str(<<"A", "y">>), Str(<<"K", "a", "r">>)>>,
         <<Str(<<"O", "c", "a", "k">>), Num(2000)>> >> }

\* formula.py lines 25-49: the response of the generate handler
route_generate_formula(result) ==
    IF result.formula = None
    THEN [success |-> FALSE, formula |-> None, explanation |-> None,
          error |-> Str(<<"Formul olusturulamadi.">>)]
    ELSE [success |-> TRUE, formula |-> result.formula,
          explanation |-> result.explanation, error |-> None]

\* the generate handler run on one request, the provider answering with
\* `first` and `second`
Generate(description, context, first, second) ==
    LET result == generate_formula(api_key, description, context,
                                   first, second)
    IN  /\ op' = "generate_formula"
        /\ req' = [description |-> description, context |-> context]
        /\ resp' = route_generate_formula(result)
        /\ sent' = result.sent
        /\ answers' = take(<<first, second>>, Len(result.sent))
        /\ UNCHANGED <<api_key, files>>

\* POST /api/formula/generate
GenerateFormula ==
    /\ op = "none"
    /\ \E description \in Descriptions, context \in Contexts,
          first \in Failures \cup Completed(FormulaContents),
          second \in Failures \cup Completed(ExplainContents) :
        Generate(description, context, first, second)

\* formula.py lines 61-75: the response of the explain handler
route_explain_formula(result) ==
    [success |-> TRUE, explanation |-> result.explanation, error |-> None]

\* the explain handler run on one request, the provider answering with
\* `outcome`
Explain(formula, outcome) ==
    LET result == explain_formula(api_key, formula, outcome)
    IN  /\ op' = "explain_formula"
        /\ req' = [formula |-> formula]
        /\ resp' = route_explain_formula(result)
        /\ sent' = result.sent
        /\ answers' = take(<<outcome>>, Len(result.sent))
        /\ UNCHANGED <<api_key, files>>

\* POST /api/formula/explain
ExplainFormula ==
    /\ op = "none"
    /\ \E formula \in Formulas,
          outcome \in Failures \cup Completed(ExplainContents) :
        Explain(formula, outcome)

\* a call of AIService.generate_insights
GenerateInsights ==
    /\ op = "none"
    /\ \E data \in InsightGrids, count \in InsightCounts,
          outcome \in Failures \cup Completed(InsightContents) :
        LET result == generate_insights(api_key, data, count, outcome)
        IN  /\ op' = "generate_insights"
            /\ req' = [data |-> data, count |-> count]
            /\ resp' = [insights |-> result.insights]
            /\ sent' = result.sent
            /\ answers' = take(<<outcome>>, Len(result.sent))
            /\ UNCHANGED <<api_key, files>>

(***************************************************************************)
(* Deck and presentation requests.                                         *)
(***************************************************************************)
SmallRows == 3      \* grids of 0..SmallRows rows are all enumerated
SmallCols == 1      \* header rows of 0..SmallCols cells are all enumerated
RequestRows == 2    \* most rows of a grid in a presentation request
RequestCols == 2    \* most header cells of a grid in a presentation request

\* the cell at row r, column c (1-based) of an enumerated grid: a header
\* text in row 1; below it a category text, a number, a numeric text, a
\* text that is no number, an empty cell, a boolean, then numbers
DeckCell(r, c) ==
    IF r = 1 THEN Str(<<"h">> \o decimal(c))
    ELSE CASE c = 1 -> Str(<<"r">> \o decimal(r))
           [] c = 2 -> Num(10 * r + c)
           [] c = 3 -> Str(decimal(10 * r + c))
           [] c = 4 -> Str(<<"n", "/", "a">>)
           [] c = 5 -> None
           [] c = 6 -> Bool(TRUE)
           [] OTHER -> Num(10 * r + c)

\* the grid of nrows rows whose rows have ncols cells, but for the last
\* data row, which has lastlen
DeckGrid(nrows, ncols, lastlen) ==
    [r \in 1..nrows |->
        [c \in 1..(IF r > 1 /\ r = nrows THEN lastlen ELSE ncols) |->
            DeckCell(r, c)]]

\* lengths of the last data row: empty, one short, full, one long
LastLens(ncols) == { n \in { 0, ncols - 1, ncols, ncols + 1 } : n >= 0 }

GridsOf(rowCounts, colCounts) ==
    { DeckGrid(nrows, ncols, lastlen) :
        <<nrows, ncols, lastlen>> \in
            { t \in rowCounts \X colCounts \X (0..(TableCols + 2)) :
                t[3] \in LastLens(t[2]) /\ (t[1] < 2 => t[3] = t[2]) } }

\* data of a create_presentation call
BuildGrids ==
    GridsOf((0..SmallRows) \cup ((TableRows - 1)..(TableRows + 1)),
            (0..SmallCols) \cup ((TableCols - 1)..(TableCols + 1)))

\* data of a presentation request
RequestGrids == GridsOf(0..RequestRows, 1..RequestCols)

Titles == { Str(<<"Analiz Raporu">>) }

\* insights of a create_presentation call
InsightLists ==
    { None, List(<<>>), List(<< MockInsights[1] >>),
      List([i \in 1..(InsightsShown + 1) |-> <<"i">> \o decimal(i)]) }

ChartTypes == { "bar", "line", "pie", "area" }

\* <<include_chart, chart_type>>: every kind with a chart, the default kind
\* without one
ChartOptions ==
    { <<TRUE, t>> : t \in ChartTypes } \cup { <<FALSE, "bar">> }

\* SlideLayout values a request's chart_type is drawn from
Layouts == { "chart_bar", "chart_line", "chart_pie", "title" }

\* <<include_chart, chart_type>> of a request: every layout with a chart,
\* the default layout without one
RequestChartOptions ==
    { <<TRUE, l>> : l \in Layouts } \cup { <<FALSE, "chart_bar">> }

\* contents the insights completion of a presentation request is drawn from
RequestInsightContents == { <<>>, <<"x">>, <<"x", "NL", " ", "NL", "y">> }

\* a call of PPTXService.create_presentation (lines 37-88): the deck is
\* saved under a fresh random name unless a slide raised
CreatePresentation ==
    /\ op = "none"
    /\ \E data \in BuildGrids, title_text \in Titles,
          insights \in InsightLists, chart \in ChartOptions,
          suffix \in HexSuffixes :
        LET include_chart == chart[1]
            chart_type == chart[2]
            built == build_slides(data, title_text, insights, include_chart,
                                  chart_type)
            filename == presentation_filename(suffix)
        IN  /\ op' = "create_presentation"
            /\ req' = [data |-> data, title |-> title_text,
                       insights |-> insights, include_chart |-> include_chart,
                       chart_type |-> chart_type]
            /\ resp' = IF built.raised # ""
                       THEN [raised |-> built.raised, slides |-> <<>>,
                             filepath |-> None]
                       ELSE [raised |-> "", slides |-> built.slides,
                             filepath |-> Str(path_join(OUTPUT_DIR, filename))]
            /\ files' = IF built.raised # "" THEN files
                        ELSE files \cup { filename }
            /\ sent' = <<>>
            /\ answers' = <<>>
            /\ UNCHANGED api_key

\* the deck builder reads no setting: its calls are explored unconfigured
InitDeck == Init /\ ~is_configured(api_key)

SpecDeck == InitDeck /\ [][CreatePresentation \/ Deliver]_vars

\* POST /api/presentation/generate
GeneratePresentation ==
    /\ op = "none"
    /\ \E data \in RequestGrids, title_text \in Titles,
          count \in InsightCounts, chart \in RequestChartOptions,
          suffix \in HexSuffixes,
          outcome \in Failures \cup Completed(RequestInsightContents) :
        LET include_chart == chart[1]
            layout == chart[2]
            result == generate_presentation(api_key, data, title_text, count,
                                            include_chart, layout, outcome,
                                            suffix)
        IN  /\ op' = "generate_presentation"
            /\ req' = [data |-> data, title |-> title_text,
                       insights_count |-> count,
                       include_chart |-> include_chart, chart_type |-> layout]
            /\ resp' = result.response
            /\ files' = files \cup result.written
            /\ sent' = result.sent
            /\ answers' = take(<<outcome>>, Len(result.sent))
            /\ UNCHANGED api_key

\* filenames a download request is drawn from: generated names, a name
\* that was never generated, names that climb out of the directory, an
\* absolute path
DownloadNames ==
    { presentation_filename(h) : h \in HexSuffixes }
    \cup { <<"report.pptx">>,
           <<"..", "/", ".env">>,
           <<"..", "/", "app", "/", "main.py">>,
           <<"nosuch", "/", "..", "/", "..", "/", ".env">>,
           <<"/", "etc", "/", "passwd">> }

\* GET /api/presentation/download/{filename}
DownloadPresentation ==
    /\ op = "none"
    /\ \E filename \in DownloadNames :
        /\ op' = "download_presentation"
        /\ req' = [filename |-> filename]
        /\ resp' = download_presentation(filename, files)
        /\ sent' = <<>>
        /\ answers' = <<>>
        /\ UNCHANGED <<api_key, files>>

SpecPresentation ==
    Init /\ [][GeneratePresentation \/ DownloadPresentation \/ Deliver]_vars

SpecAdvisor ==
    Init /\ [][GenerateFormula \/ ExplainFormula \/ GenerateInsights
               \/ Deliver]_vars

(***************************************************************************)
(* The four POST handlers side by side.  Each handler's inputs are         *)
(* explored at length by its own specification; here the formula and clean *)
(* requests are drawn from samples that take every branch of their         *)
(* handlers.                                                               *)
(***************************************************************************)
ServiceDescriptions ==
    { <<"T", "o", "p", "l", "a">>, kw_vlookup, <<"x", "y", "z">> }

ServiceGrids ==
    { <<>>, << <<>> >>,
      << << Str(<<" ", "a", "b">>), Str(<<"A", "b">>), Num(7) >>,
         << None, Str(<<" ">>) >> >> }

FormulaService ==
    /\ op = "none"
    /\ \E description \in ServiceDescriptions, context \in Contexts,
          first \in Failures \cup Completed(FormulaContents),
          second \in Failures \cup Completed(ExplainContents) :
        Generate(description, context, first, second)

CleanService == op = "none" /\ \E data \in ServiceGrids : Clean(data)

SpecService ==
    Init /\ [][FormulaService \/ ExplainFormula \/ CleanService
               \/ GeneratePresentation \/ Deliver]_vars

(***************************************************************************)
(* Properties of the data cleaner.                                         *)
(***************************************************************************)
\* C2: clean is idempotent on grids of text cells: cleaning the cleaned grid
\* of a response gives that same grid, cell by cell.
C2_CleanIdempotent ==
    op = "clean" =>
        clean_data(resp.cleaned_data).cleaned_data = resp.cleaned_data

\* a text without leading or trailing whitespace whose first character is
\* not lowercase (the empty text included)
TrimmedNotLower(s) ==
    \/ s = <<>>
    \/ /\ ~IsSpace(s[1])
       /\ ~IsSpace(s[Len(s)])
       /\ ~IsLowerChar(s[1])

KeptCell(cell) == ~IsStr(cell) \/ TrimmedNotLower(cell.val)

InsideGenerated(node) ==
    Len(node) > Len(GeneratedDir)
    /\ SubSeq(node, 1, Len(GeneratedDir)) = GeneratedDir

\* C1: a filename whose joined path resolves outside the generated-output
\* directory is answered 403 or 404, never with a file's contents.
C1_DownloadStaysInside ==
    op = "download_presentation" =>
        LET node == resolve(path_join(OUTPUT_DIR, req.filename), files)
        IN  ~InsideGenerated(node) =>
                resp.status \in { 403, 404 } /\ resp.body = Missing

(***************************************************************************)
(* Properties of the formula advisor.                                      *)
(***************************************************************************)
BeginsWith(s, prefix) ==
    Len(prefix) <= Len(s) /\ \A i \in 1..Len(prefix) : s[i] = prefix[i]

\* C4: a successful first completion with text t is returned as t when t
\* begins with "=" or "HATA" and as "=" followed by t otherwise; on every
\* path the formula is present and begins with "=" or "HATA".
C4_FormulaNormalized ==
    op = "generate_formula" =>
        /\ resp.success
        /\ resp.formula # None
        /\ \/ BeginsWith(resp.formula.val, <<"=">>)
           \/ BeginsWith(resp.formula.val, <<"H", "A", "T", "A">>)
        /\ (is_configured(api_key) /\ answers[1].kind = "ok") =>
               LET t == strip(answers[1].content)
               IN  resp.formula.val =
                       IF \/ BeginsWith(t, <<"=">>)
                          \/ BeginsWith(t, <<"H", "A", "T", "A">>)
                       THEN t ELSE <<"=">> \o t

\* a completion without "=" came back prefixed, and the request before it
\* was sent to the provider
C4_Witness ==
    /\ op = "generate_formula"
    /\ is_configured(api_key)
    /\ answers[1].kind = "ok"
    /\ answers[1].content = <<"A", "1", "+", "B", "1">>
    /\ resp.formula.val = <<"=", "A", "1", "+", "B", "1">>

\* the keyword rules in priority order: the keywords of a rule, its reply
MockRules ==
    << << { kw_topla, kw_sum }, SumReply >>,
       << { kw_ortalama, kw_average }, AverageReply >>,
       << { kw_say, kw_count }, CountReply >>,
       << { kw_eger, kw_if }, IfReply >>,
       << { kw_duseyara, kw_vlookup }, LookupReply >> >>

RuleMatches(i, description) ==
    \E kw \in MockRules[i][1] : contains(lower(description), kw)

\* C5: unconfigured, generateFormula answers with the reply of the first
\* rule (sum, average, count, conditional, lookup) one of whose keywords the
\* lowercased description contains, and with the default =TOPLA(A:A) when
\* none does; a description containing "topla" gets =TOPLA(A1:A10).
C5_MockFirstMatchWins ==
    (op = "generate_formula" /\ ~is_configured(api_key)) =>
        /\ sent = <<>>
        /\ resp.success
        /\ \A i \in 1..Len(MockRules) :
               (RuleMatches(i, req.description)
                /\ \A j \in 1..(i - 1) : ~RuleMatches(j, req.description))
               => /\ resp.formula = MockRules[i][2].formula
                  /\ resp.explanation = MockRules[i][2].explanation
        /\ (\A i \in 1..Len(MockRules) : ~RuleMatches(i, req.description))
               => resp.formula = Str(<<"=", "TOPLA(A:A)">>)
        /\ contains(lower(req.description), kw_topla)
               => /\ resp.formula = Str(<<"=", "TOPLA(A1:A10)">>)
                  /\ resp.explanation = SumReply.explanation

\* a description with "topla" after a keyword of a later rule
C5_Witness ==
    /\ op = "generate_formula"
    /\ ~is_configured(api_key)
    /\ req.description =
           join(<<" ">>, << <<"O", "R", "T", "A", "L", "A", "M", "A">>,
                           <<"T", "o", "p", "l", "a">> >>)
    /\ resp.formula = Str(<<"=", "TOPLA(A1:A10)">>)

\* C6: unconfigured, generateInsights returns the first min(count, 3) of
\* the three canned insights, in order, whatever the data.
C6_MockInsightsTruncated ==
    (op = "generate_insights" /\ ~is_configured(api_key)) =>
        /\ sent = <<>>
        /\ Len(resp.insights) = Min(req.count, 3)
        /\ \A i \in 1..Len(resp.insights) : resp.insights[i] = MockInsights[i]

\* five insights asked of a grid with rows, three returned
C6_Witness ==
    /\ op = "generate_insights"
    /\ ~is_configured(api_key)
    /\ req.count = 5
    /\ Len(req.data) > PromptRows
    /\ Len(resp.insights) = 3

\* C10: configured, a failed completion falls back to the mock: the
\* generate handler answers with the mock pair for the description and has
\* sent no explanation request, generateInsights returns the mock list for
\* the count, and the caller sees no failure.
C10_FailureFallsBackToMock ==
    /\ (op = "generate_formula" /\ is_configured(api_key)
        /\ answers[1].kind # "ok") =>
           /\ resp.success /\ resp.error = None
           /\ resp.formula = mock_formula(req.description).formula
           /\ resp.explanation = mock_formula(req.description).explanation
           /\ Len(sent) = 1 /\ sent[1].intent = "formula"
    /\ (op = "generate_insights" /\ is_configured(api_key)
        /\ answers[1].kind # "ok") =>
           /\ resp.insights = mock_insights(req.data, req.count)
           /\ Len(sent) = 1

\* the provider answered the formula request with a non-2xx status
C10_Witness ==
    /\ op = "generate_formula"
    /\ is_configured(api_key)
    /\ answers[1].kind = "http_status"
    /\ resp.formula = CountReply.formula

(***************************************************************************)
(* Properties of the deck builder.                                         *)
(***************************************************************************)
SlideKinds == [i \in 1..Len(resp.slides) |-> resp.slides[i].kind]

\* C7: every build yields Title, then Insights iff there are insights, then
\* Chart iff includeChart and more than one row, then Table iff more than
\* one row, then Conclusion.
C7_SlideOrder ==
    op = "create_presentation" =>
        SlideKinds =
            <<"title">>
            \o (IF req.insights # None /\ Len(req.insights.val) > 0
                THEN <<"insights">> ELSE <<>>)
            \o (IF req.include_chart /\ Len(req.data) > 1
                THEN <<"chart">> ELSE <<>>)
            \o (IF Len(req.data) > 1 THEN <<"table">> ELSE <<>>)
            \o <<"conclusion">>

TableSlides ==
    { i \in 1..Len(resp.slides) : resp.slides[i].kind = "table" }

C9_ShortGridRejectedFirst ==
    [][(op' = "generate_presentation" /\ Len(req'.data) < 2) =>
           /\ resp'.success = FALSE
           /\ resp'.error = ValidationError
           /\ resp'.file_url = None
           /\ resp'.insights = None
           /\ sent' = <<>>
           /\ files' = files]_vars

\* a header-only grid was rejected on a configured server that holds files
C9_Witness ==
    /\ op = "generate_presentation"
    /\ Len(req.data) = 1
    /\ is_configured(api_key)
    /\ files # {}
    /\ resp.success = FALSE

\* the explanation completion failed or came back blank
NoExplanation(outcome) ==
    outcome.kind # "ok" \/ strip(outcome.content) = <<>>

\* C11: the explanation of the generate and explain handlers is never
\* absent; when the explanation completion fails or is blank it is the fixed
\* "could not generate" text, and the generate handler still returns the
\* formula of the first completion with it.
C11_ExplanationNeverNull ==
    /\ op \in { "generate_formula", "explain_formula" } =>
           resp.success /\ resp.explanation # None
    /\ (op = "explain_formula" /\ is_configured(api_key)
        /\ NoExplanation(answers[1])) =>
           resp.explanation = Str(<<"Aciklama olusturulamadi.">>)
    /\ (op = "generate_formula" /\ is_configured(api_key)
        /\ answers[1].kind = "ok") =>
           /\ Len(answers) = 2
           /\ NoExplanation(answers[2]) =>
                  LET t == strip(answers[1].content)
                  IN  /\ resp.explanation = Str(<<"Aciklama olusturulamadi.">>)
                      /\ resp.formula \in { Str(t), Str(<<"=">> \o t) }

\* the formula completion succeeded and the explanation request failed
C11_Witness ==
    /\ op = "generate_formula"
    /\ is_configured(api_key)
    /\ answers[1].kind = "ok" /\ answers[1].content = <<" ", "=", "A", "1", "NL">>
    /\ answers[2].kind = "exception"
    /\ resp.formula = Str(<<"=", "A", "1">>)
    /\ resp.explanation = Str(<<"Aciklama olusturulamadi.">>)

(***************************************************************************)
(* Properties of the response envelopes.                                   *)
(***************************************************************************)
PostHandlers ==
    { "generate_formula", "explain_formula", "clean", "generate_presentation" }

\* the result fields of a handler's response: every field but success and
\* error
ResultFields == DOMAIN resp \ { "success", "error" }

\* the component under the presentation handler raised on this request:
\* the chart slide read the first cell of an empty data row
DeckRaised ==
    /\ op = "generate_presentation"
    /\ Len(req.data) >= 2
    /\ req.include_chart
    /\ \E r \in 2..Len(req.data) : req.data[r] = <<>>

\* C12: an exception raised under a POST handler comes back as an envelope
\* with success=false and the exception message as error; in every response
\* success=true comes without an error, and success=false with an error
\* and with no result field set.
C12_Envelope ==
    op \in PostHandlers =>
        /\ resp.success \in BOOLEAN
        /\ resp.success => resp.error = None
        /\ ~resp.success =>
               /\ resp.error # None /\ resp.error.val # <<>>
               /\ \A f \in ResultFields : resp[f] = None
        /\ DeckRaised =>
               /\ ~resp.success
               /\ resp.error = Str(<<"list index out of range">>)

\* the chart slide raised under the presentation handler
C12_Witness ==
    /\ DeckRaised
    /\ ~resp.success
    /\ resp.error = Str(<<"list index out of range">>)
    /\ resp.file_url = None

(***************************************************************************)
(* Properties of the change log.                                           *)
(***************************************************************************)
\* the positions <<row, column>> (1-based) whose cleaned value differs from
\* the original
ChangedCells ==
    UNION { { <<r, c>> : c \in { k \in 1..Len(req.data[r]) :
                                   resp.cleaned_data[r][k] # req.data[r][k] } } :
            r \in 1..Len(req.data) }

\* row-major order of positions
Precedes(p, q) == p[1] < q[1] \/ (p[1] = q[1] /\ p[2] <= q[2])

\* the i-th changed position in row-major order
NthChanged(i) ==
    CHOOSE p \in ChangedCells :
        Cardinality({ q \in ChangedCells : Precedes(q, p) }) = i

C14_FilenamesDistinct ==
    [][(op' = "create_presentation" /\ resp'.raised = "") =>
           /\ basename(resp'.filepath.val) \notin files
           /\ files' = files \cup { basename(resp'.filepath.val) }]_vars

(***************************************************************************)
(* Properties of the chart and table slides.                               *)
(***************************************************************************)
ChartSlides ==
    { i \in 1..Len(resp.slides) : resp.slides[i].kind = "chart" }

\* C15: for a grid with more than one row, ragged or not, the chart slide
\* is built without failure, with one category per data row (the text of
\* its first cell) and one series per header column after the first, each
\* with one value per data row, 0 where the cell is missing or no number.
C15_ChartTolerant ==
    (op = "create_presentation" /\ req.include_chart /\ Len(req.data) > 1) =>
        /\ resp.raised = ""
        /\ Cardinality(ChartSlides) = 1
        /\ \A i \in ChartSlides :
               LET chart == resp.slides[i]
                   width == Len(req.data[1])
                   count == Len(req.data) - 1
               IN  /\ Len(chart.categories) = count
                   /\ \A r \in 1..count :
                          chart.categories[r] = pystr(req.data[r + 1][1])
                   /\ Len(chart.series) = (IF width > 1 THEN width - 1 ELSE 0)
                   /\ \A k \in 1..Len(chart.series) :
                          /\ Len(chart.series[k].values) = count
                          /\ \A r \in 1..count :
                                 (\/ k + 1 > Len(req.data[r + 1])
                                  \/ req.data[r + 1][k + 1] = None
                                  \/ req.data[r + 1][k + 1]
                                         = Str(<<"n", "/", "a">>))
                                 => chart.series[k].values[r] = 0

\* the fill of every cell of table row r (1-based, the header being row 1)
\* of table slide t is `fill`
RowFilled(t, r, fill) == \A c \in 1..t.cols_count : t.cells[r][c].fill = fill

\* C16 as stated: a displayed data row is shaded exactly when its index
\* among the data rows, counted from 0 below the header, is even; the header
\* row has the header style.
C16_ShadedByDataIndex ==
    op = "create_presentation" =>
        \A i \in TableSlides :
            LET t == resp.slides[i]
            IN  /\ t.rows_count >= 1 => RowFilled(t, 1, "COLOR_PRIMARY")
                /\ \A r \in 2..t.rows_count :
                       IF (r - 2) % 2 = 0
                       THEN RowFilled(t, r, "COLOR_LIGHT")
                       ELSE RowFilled(t, r, "none")

\* C16 amended: a displayed data row is shaded exactly when its row index
\* in the table, counted from 0 at the header, is even: the first data row
\* under the header is not shaded, the second is, and so on; the header
\* row has the header style and never the alternating shade.
C16_ShadedByTableIndex ==
    op = "create_presentation" =>
        \A i \in TableSlides :
            LET t == resp.slides[i]
            IN  /\ t.rows_count >= 1 => RowFilled(t, 1, "COLOR_PRIMARY")
                /\ \A r \in 2..t.rows_count :
                       IF (r - 1) % 2 = 0
                       THEN RowFilled(t, r, "COLOR_LIGHT")
                       ELSE RowFilled(t, r, "none")

\* a table of the full fifteen rows with columns: its first data row
\* unshaded, its second shaded
C16_Witness ==
    /\ op = "create_presentation"
    /\ \E i \in TableSlides :
           LET t == resp.slides[i]
           IN  /\ t.rows_count = 15 /\ t.cols_count > 1
               /\ t.cells[1][1].fill = "COLOR_PRIMARY"
               /\ t.cells[2][1].fill = "none"
               /\ t.cells[3][1].fill = "COLOR_LIGHT"
               /\ t.cells[15][1].fill = "COLOR_LIGHT"

(***************************************************************************)
(* Properties of the insights.                                             *)
(***************************************************************************)
\* the lines of the completion text t, and those of them that are not blank
LinesOf(t) == split_lines(t)
NonBlank(t) == { i \in 1..Len(LinesOf(t)) : strip(LinesOf(t)[i]) # <<>> }

\* the i-th non-blank line of t
NthNonBlank(t, i) ==
    CHOOSE k \in NonBlank(t) :
        Cardinality({ j \in NonBlank(t) : j <= k }) = i

\* the line breaks of a text
LineBreaks(s) == Cardinality({ i \in 1..Len(s) : s[i] = "NL" })

\* C17: configured, with a successful insights completion of text t, the
\* insights are the first `count` non-blank lines of t, in order, each
\* stripped: never more than count, never an empty text; the prompt holds
\* at most the first 20 rows of the grid.
C17_InsightsFromCompletion ==
    (op = "generate_insights" /\ is_configured(api_key)
     /\ answers[1].kind = "ok") =>
        LET t == strip(answers[1].content)
            shown == Min(Len(req.data), 20)
        IN  /\ Len(resp.insights) = Min(req.count, Cardinality(NonBlank(t)))
            /\ Len(resp.insights) <= req.count
            /\ \A i \in 1..Len(resp.insights) :
                   /\ resp.insights[i] = strip(LinesOf(t)[NthNonBlank(t, i)])
                   /\ resp.insights[i] # <<>>
            /\ Len(sent) = 1
            /\ sent[1].max_tokens = 800
            /\ LineBreaks(sent[1].user) = 2 + (IF shown > 0 THEN shown - 1 ELSE 0)
            /\ shown > 0 =>
                   LET last == join(<<" ", "|", " ">>,
                                    [c \in 1..Len(req.data[shown]) |->
                                        pystr(req.data[shown][c])])
                       n == Len(sent[1].user)
                   IN  SubSeq(sent[1].user, n - Len(last), n) = <<"NL">> \o last

\* two insights asked of a completion of three with a blank line between
\* them, for a grid of more than 20 rows
C17_Witness ==
    /\ op = "generate_insights"
    /\ is_configured(api_key)
    /\ answers[1].kind = "ok"
    /\ answers[1].content = <<" ", "x", "NL", " ", "NL", "y", " ", "NL", "z">>
    /\ req.count = 2
    /\ Len(req.data) > 20
    /\ resp.insights = << <<"x">>, <<"y">> >>

(***************************************************************************)
(* Properties of the provider requests.                                    *)
(***************************************************************************)
AdvisorCalls == { "generate_formula", "explain_formula", "generate_insights" }

\* the intents of the requests a call sent, in order
Intents == [i \in 1..Len(sent) |-> sent[i].intent]

\* C18: unconfigured, no advisor call sends a provider request; configured,
\* explainFormula and generateInsights send exactly one, generateFormula
\* sends one when the first fails and two (formula, then explanation) when
\* it succeeds; a failed request is not sent again.
C18_RequestCounts ==
    /\ op \notin AdvisorCalls => sent = <<>>
    /\ op \in AdvisorCalls =>
           /\ Len(answers) = Len(sent)
           /\ IF ~is_configured(api_key) THEN sent = <<>>
              ELSE CASE op = "explain_formula" -> Intents = <<"explain">>
                     [] op = "generate_insights" -> Intents = <<"insights">>
                     [] op = "generate_formula" ->
                           IF answers[1].kind = "ok"
                           THEN Intents = <<"formula", "explain">>
                           ELSE Intents = <<"formula">>
           /\ \A i \in 1..Len(sent) :
                  answers[i].kind # "ok" =>
                      \A j \in (i + 1)..Len(sent) : sent[j] # sent[i]

\* the formula request succeeded and the explanation request was refused:
\* two requests, the second not repeated
C18_Witness ==
    /\ op = "generate_formula"
    /\ is_configured(api_key)
    /\ answers[1].kind = "ok"
    /\ answers[2].kind = "http_status"
    /\ Intents = <<"formula", "explain">>
    /\ sent[2].max_tokens = 500

(***************************************************************************)
(* Properties of generate and download together.                           *)
(***************************************************************************)
DownloadPrefix == <<"/api/presentation/download/">>

\* the file of the generated-output directory with this name
GeneratedFile(name) == Append(GeneratedDir, name)

\* C19: a successful generate response carries the file_url
\* /api/presentation/download/<filename> of the file the deck builder has
\* just written in the generated-output directory, never a success without
\* that file; a download of a generated filename serves that very file,
\* neither 404 nor 403.
C19_UrlNamesWrittenFile ==
    [][
        /\ (op' = "generate_presentation" /\ resp'.success) =>
              \E h \in HexSuffixes :
                  LET name == presentation_filename(h)
                  IN  /\ resp'.file_url = Str(DownloadPrefix \o name)
                      /\ name \in files'
                      /\ files' = files \cup { name }
                      /\ GeneratedFile(name) \in RegularFiles(files')
        /\ (op' = "generate_presentation" /\ ~resp'.success) =>
              files' = files
        /\ (op' = "download_presentation" /\ req'.filename \in files) =>
              /\ resp'.status = 200
              /\ resp'.body = GeneratedFile(req'.filename)
        /\ (op' = "download_presentation") => files' = files
    ]_vars

\* a generated deck was downloaded under the name of its file_url
C19_Witness ==
    /\ op = "download_presentation"
    /\ req.filename \in files
    /\ resp.status = 200
    /\ resp.body = GeneratedFile(req.filename)

====
